---- MODULE Spec2Model ----
(***************************************************************************)
(* A model of matmul_kernel.cpp: the grouped int8 quantized matrix-vector  *)
(* product kernel_entry, its three float32 primitives (round to nearest    *)
(* even), the OpenMP row-parallel loop and the final halt().               *)
(***************************************************************************)
EXTENDS Integers, FiniteSets, Sequences, TLC

(***************************************************************************)
(* Bounds of the model (not program constants).                            *)
(***************************************************************************)
MaxN == 4
MaxD == 2
MaxGs == 3
MaxThreads == 2
MaxCells == 8

(***************************************************************************)
(* Machine integers.                                                       *)
(***************************************************************************)
\* uint64_t n, d, gs, i, in, j, k.  TLC's integers are 32 bits wide, so the
\* unsigned word of the model is 30 bits: arithmetic is modulo 2^30 where the
\* code's is modulo 2^64.  The only wrap a run of the kernel reaches is the
\* underflow of n - gs when n < gs; every other counter stays far below
\* either modulus.
WordBits == 30

Pow2(k) == 2 ^ k

UMod == Pow2(WordBits)

USub(a, b) == (a - b) % UMod
UAdd(a, b) == (a + b) % UMod
UMul(a, b) == (a * b) % UMod

\* int32_t ival, with -fno-strict-overflow (two's complement wrap).
I32Max == 2147483647
I32Min == -I32Max - 1

I32Add(a, b) ==
    IF b > 0 /\ a > I32Max - b THEN (a - I32Max - 1) + (b - I32Max - 1)
    ELSE IF b < 0 /\ a < I32Min - b THEN (a + I32Max + 1) + (b + I32Max + 1)
    ELSE a + b

\* int8_t
I8Min == -128
I8Max == 127

Abs(x) == IF x < 0 THEN -x ELSE x
Max2(a, b) == IF a >= b THEN a ELSE b
Min2(a, b) == IF a <= b THEN a ELSE b

(***************************************************************************)
(* float32_t: an IEEE-754 binary32 value as its three fields, sign s,      *)
(* biased exponent e (8 bits) and fraction f (23 bits).  The operators     *)
(* below compute the correctly rounded (round-to-nearest-even) result of   *)
(* fmul.s, fmadd.s and fcvt.s.w, with the RISC-V canonical NaN.  Finite    *)
(* operands are decoded to an exact value m * 2^x with m odd; exact        *)
(* intermediate values must have fewer than 2^29 in m (TLC's integers      *)
(* overflow otherwise, and TLC stops with an error).                       *)
(***************************************************************************)
FracBits == 23
ExpAllOnes == 255
ExpBias == 127

Hidden == Pow2(FracBits)            \* 2^23, the implicit leading bit
QMin == 1 - ExpBias - FracBits     \* -149, weight of a subnormal's last bit

F32(s, e, f) == [s |-> s, e |-> e, f |-> f]
F32Zero(s) == F32(s, 0, 0)
F32Inf(s) == F32(s, ExpAllOnes, 0)
F32NaN == F32(0, ExpAllOnes, Pow2(FracBits - 1))

IsNaN(x) == x.e = ExpAllOnes /\ x.f # 0
IsInf(x) == x.e = ExpAllOnes /\ x.f = 0
IsZero(x) == x.e = 0 /\ x.f = 0
IsFinite(x) == x.e # ExpAllOnes

RECURSIVE BitLen(_)
BitLen(m) == IF m = 0 THEN 0 ELSE 1 + BitLen(m \div 2)

\* m * 2^x with the trailing zero bits of m moved into x
RECURSIVE Odd(_, _)
Odd(m, x) == IF m # 0 /\ m % 2 = 0 THEN Odd(m \div 2, x + 1) ELSE [m |-> m, x |-> x]

\* the exact value of a finite nonzero float
Decode(a) ==
    IF a.e = 0 THEN Odd(a.f, QMin) ELSE Odd(Hidden + a.f, a.e - ExpBias - FracBits)

\* v shifted right by sh bits: the quotient, the last bit shifted out (r) and
\* whether any bit below it was set (st)
RECURSIVE ShiftRS(_, _, _, _)
ShiftRS(v, r, st, sh) ==
    IF sh = 0 THEN [v |-> v, r |-> r, st |-> st]
    ELSE IF v = 0 THEN [v |-> 0, r |-> 0, st |-> st \/ r = 1]
    ELSE ShiftRS(v \div 2, v % 2, st \/ r = 1, sh - 1)

\* the float nearest to (-1)^s * (m + sticky) * 2^x, ties to even; m > 0
RoundPack(s, m, x, sticky) ==
    LET top == x + BitLen(m) - 1
        q == Max2(top - FracBits, QMin)
        sr == IF x >= q THEN [v |-> m * Pow2(x - q), r |-> 0, st |-> FALSE]
              ELSE ShiftRS(m, 0, sticky, q - x)
        up == sr.r = 1 /\ (sr.st \/ sr.v % 2 = 1)
        mr == IF up THEN sr.v + 1 ELSE sr.v
        carry == mr = 2 * Hidden
        mant == IF carry THEN Hidden ELSE mr
        qq == IF carry THEN q + 1 ELSE q
        be == qq + ExpBias + FracBits
    IN  IF mant = 0 THEN F32Zero(s)
        ELSE IF mant < Hidden THEN F32(s, 0, mant)
        ELSE IF be >= ExpAllOnes THEN F32Inf(s)
        ELSE F32(s, be, mant - Hidden)

\* fcvt.s.w rd, rs, rne / cvt_i_f<int32_t>(a, FRM_RNE)
I32ToF32(x) ==
    IF x = 0 THEN F32Zero(0)
    ELSE RoundPack(IF x < 0 THEN 1 ELSE 0, Abs(x), 0, FALSE)

SignXor(a, b) == (a.s + b.s) % 2

\* fmul.s rd, a, b, rne / i_sfloat32::mul(a, b, FRM_RNE)
F32Mul(a, b) ==
    IF IsNaN(a) \/ IsNaN(b) THEN F32NaN
    ELSE IF (IsInf(a) /\ IsZero(b)) \/ (IsZero(a) /\ IsInf(b)) THEN F32NaN
    ELSE IF IsInf(a) \/ IsInf(b) THEN F32Inf(SignXor(a, b))
    ELSE IF IsZero(a) \/ IsZero(b) THEN F32Zero(SignXor(a, b))
    ELSE LET da == Decode(a)
             db == Decode(b)
         IN  RoundPack(SignXor(a, b), da.m * db.m, da.x + db.x, FALSE)

\* m * 2^x in units of 2^x0: exact when x >= x0, else truncated with a sticky flag
ToUnit(m, x, x0) ==
    IF x >= x0 THEN [v |-> m * Pow2(x - x0), st |-> FALSE]
    ELSE LET sr == ShiftRS(m, 0, FALSE, x0 - x)
         IN  [v |-> sr.v, st |-> sr.st \/ sr.r = 1]

\* the rounded sum of two finite nonzero exact values (sp,mp,xp) and (sc,mc,xc)
AddRound(sp, mp, xp, sc, mc, xc) ==
    LET top == Max2(xp + BitLen(mp), xc + BitLen(mc)) - 1
        x0 == Max2(Min2(xp, xc), top - 29)
        A == ToUnit(mp, xp, x0)
        B == ToUnit(mc, xc, x0)
        st == A.st \/ B.st
    IN  IF sp = sc THEN RoundPack(sp, A.v + B.v, x0, st)
        ELSE IF A.v = B.v /\ ~st THEN F32Zero(0)
        ELSE IF A.v > B.v \/ (A.v = B.v /\ A.st)
             THEN RoundPack(sp, A.v - B.v - (IF B.st THEN 1 ELSE 0), x0, st)
             ELSE RoundPack(sc, B.v - A.v - (IF A.st THEN 1 ELSE 0), x0, st)

\* fmadd.s rd, a, b, c, rne / i_sfloat32::fma(a, b, c, FRM_RNE): a*b + c, one rounding
F32Fma(a, b, c) ==
    IF IsNaN(a) \/ IsNaN(b) \/ IsNaN(c) THEN F32NaN
    ELSE IF (IsInf(a) /\ IsZero(b)) \/ (IsZero(a) /\ IsInf(b)) THEN F32NaN
    ELSE IF IsInf(a) \/ IsInf(b)
         THEN IF IsInf(c) /\ c.s # SignXor(a, b) THEN F32NaN ELSE F32Inf(SignXor(a, b))
    ELSE IF IsInf(c) THEN c
    ELSE IF IsZero(a) \/ IsZero(b)
         THEN IF IsZero(c) THEN F32Zero(IF c.s = SignXor(a, b) THEN c.s ELSE 0) ELSE c
    ELSE LET da == Decode(a)
             db == Decode(b)
             sp == SignXor(a, b)
             mp == da.m * db.m
             xp == da.x + db.x
         IN  IF IsZero(c) THEN RoundPack(sp, mp, xp, FALSE)
             ELSE LET dc == Decode(c)
                  IN  AddRound(sp, mp, xp, c.s, dc.m, dc.x)

(***************************************************************************)
(* State.                                                                  *)
(***************************************************************************)
VARIABLES
    build,      \* "guest" (#ifdef __riscv) or "host"
    n, d, gs,   \* the three dimensions
    xq, xs,     \* quantized input vector and its scales
    wq, ws,     \* quantized weight matrix (row major) and its scales
    xout,       \* the output vector
    mainpc,     \* kernel_entry: "entry", "parallel", "halt", "done", "trapped"
    pool,       \* iterations i of the parallel for not yet given to a thread
    pc,         \* per thread: "idle", "group", "inner", "fma", "store"
    row, base,  \* per thread: i and in = i * n
    sum,        \* per thread: float32_t sum
    j, ival, k, \* per thread: the group offset, the accumulator, the element
    htif,       \* the word at HTIF_START
    halts,      \* number of calls of halt() in this invocation
    writes,     \* writes[i]: number of stores to xout[i] in this invocation
    junk8,      \* what the bytes past the end of xq and wq hold
    junk32,     \* what the words past the end of xs and ws hold
    inv,        \* number of the invocation (1, 2, ...)
    prev        \* xout as the previous invocation left it

inputs == <<build, n, d, gs, xq, xs, wq, ws, junk8, junk32>>
locals == <<pc, row, base, sum, j, ival, k>>
vars == <<build, n, d, gs, xq, xs, wq, ws, xout, mainpc, pool,
          pc, row, base, sum, j, ival, k, htif, halts, writes, junk8, junk32, inv, prev>>

Threads == 1 .. MaxThreads

(***************************************************************************)
(* The buffers the caller passes: their lengths, and the contents the      *)
(* model draws them from.                                                  *)
(***************************************************************************)
XqLen == n
XsLen == n \div gs
WqLen == d * n
WsLen == (d * n) \div gs      \* d * (n / gs) when gs divides n
XoutLen == d

BufLen(b) ==
    CASE b = "xq" -> XqLen
      [] b = "xs" -> XsLen
      [] b = "wq" -> WqLen
      [] b = "ws" -> WsLen
      [] b = "xout" -> XoutLen

F32One == F32(0, ExpBias, 0)
F32Two24 == F32(0, ExpBias + 24, 0)          \* 2^24
F32OneUlp == F32(0, ExpBias, 1)              \* 1 + 2^-23
F32Huge == F32(0, ExpAllOnes - 1, 0)         \* 2^127
F32Tiny == F32(0, 0, 1)                      \* 2^-149, subnormal

XqPatterns == {"zero", "ramp", "max", "min", "low", "alt"}
WqPatterns == {"one", "low", "max", "mix"}
XsPatterns == {"one", "bigfirst", "ulp", "negzero", "zero", "neg", "tiny", "huge", "inf", "nan"}
WsPatterns == {"one", "rows", "neg", "zero", "tiny", "huge", "inf", "nan"}

XqElem(p, x) ==
    CASE p = "zero" -> 0
      [] p = "ramp" -> x + 1
      [] p = "max" -> I8Max
      [] p = "min" -> -I8Max
      [] p = "low" -> I8Min
      [] p = "alt" -> IF x % 2 = 0 THEN -3 ELSE 3

WqElem(p, x) ==
    CASE p = "one" -> 1
      [] p = "low" -> I8Min
      [] p = "max" -> I8Max
      [] p = "mix" -> ((x * 3) % 5) - 2

ScaleElem(p, x) ==
    CASE p = "one" -> F32One
      [] p = "bigfirst" -> IF x = 0 THEN F32Two24 ELSE F32One
      [] p = "ulp" -> IF x % 2 = 0 THEN F32One ELSE F32OneUlp
      [] p = "rows" -> I32ToF32(x + 1)
      [] p = "negzero" -> F32Zero(1)
      [] p = "zero" -> F32Zero(0)
      [] p = "neg" -> F32(1, ExpBias, 0)
      [] p = "tiny" -> F32Tiny
      [] p = "huge" -> F32Huge
      [] p = "inf" -> F32Inf(0)
      [] p = "nan" -> F32NaN

\* what xout holds before the call
XoutBefore == F32NaN

\* what the memory past the end of the buffers may hold
Junk8(p) == IF p = "a" THEN I8Max ELSE I8Min
Junk32(p) == IF p = "a" THEN F32One ELSE F32NaN

\* The inputs of the model: the dimensions and the build, and for each
\* buffer the pattern its contents follow.
ConfigSpace ==
    [ build : {"guest", "host"}, n : 0 .. MaxN, d : 0 .. MaxD, gs : 1 .. MaxGs,
      xqp : XqPatterns, wqp : WqPatterns, xsp : XsPatterns, wsp : WsPatterns,
      junk : {"a", "b"} ]

\* the memory past the buffers matters only where the kernel reads it
JunkOk(c) == c.n < c.gs \/ c.junk = "a"
SizeOk(c) == c.d * c.n <= MaxCells

Plain(c) == c.xqp = "ramp" /\ c.wqp = "mix" /\ c.xsp = "one" /\ c.wsp = "rows"
IntRich(c) == c.xsp \in {"one", "bigfirst"} /\ c.wsp = "one"
ScaleRich(c) == c.xqp \in {"zero", "alt"} /\ c.wqp = "mix"
Scenario(c) == c.xqp = "ramp" /\ c.wqp = "one" /\ c.xsp = "one" /\ c.wsp = "one"
Cancelling(c) == c.xqp = "alt" /\ c.wqp \in {"one", "mix"} /\ c.xsp = "ulp" /\ c.wsp \in {"one", "rows"}

\* every combination of dimensions, in both builds, with one content
StructConfigs == { c \in ConfigSpace : Plain(c) /\ JunkOk(c) /\ SizeOk(c) }

\* the richer contents: integers with unit scales and scales with two integer
\* contents on a single row; rows that differ, and groups that cancel up to a
\* rounding error, on several rows
NumConfigs ==
    { c \in ConfigSpace :
        /\ JunkOk(c) /\ SizeOk(c)
        /\ \/ /\ c.build = "host" /\ c.d = 1 /\ c.n >= c.gs
              /\ IntRich(c) \/ ScaleRich(c)
           \/ /\ c.d >= 1 /\ (c.n >= c.gs \/ c.d = 1)
              /\ Plain(c) \/ Cancelling(c)
           \/ c.build = "guest" /\ c.d = 1 /\ Scenario(c) }

InitWith(C) ==
    \E c \in C :
        /\ build = c.build
        /\ n = c.n /\ d = c.d /\ gs = c.gs
        /\ xq = [x \in 0 .. c.n - 1 |-> XqElem(c.xqp, x)]
        /\ xs = [x \in 0 .. (c.n \div c.gs) - 1 |-> ScaleElem(c.xsp, x)]
        /\ wq = [x \in 0 .. c.d * c.n - 1 |-> WqElem(c.wqp, x)]
        /\ ws = [x \in 0 .. ((c.d * c.n) \div c.gs) - 1 |-> ScaleElem(c.wsp, x)]
        /\ xout = [x \in 0 .. c.d - 1 |-> XoutBefore]
        /\ mainpc = "entry"
        /\ pool = {}
        /\ pc = [t \in Threads |-> "idle"]
        /\ row = [t \in Threads |-> 0]
        /\ base = [t \in Threads |-> 0]
        /\ sum = [t \in Threads |-> F32Zero(0)]
        /\ j = [t \in Threads |-> 0]
        /\ ival = [t \in Threads |-> 0]
        /\ k = [t \in Threads |-> 0]
        /\ htif = 0
        /\ halts = 0
        /\ writes = [x \in 0 .. c.d - 1 |-> 0]
        /\ junk8 = Junk8(c.junk)
        /\ junk32 = Junk32(c.junk)
        /\ inv = 1
        /\ prev = << >>

Init == InitWith(StructConfigs)
InitNum == InitWith(NumConfigs)

(***************************************************************************)
(* Buffer accesses: buffer, index, read or write, and the row whose        *)
(* computation makes it.  A read inside the buffer yields the element; a   *)
(* read past its end is undefined behaviour: it yields what the memory     *)
(* there holds, or faults (the action Trap).                               *)
(***************************************************************************)
Access(b, x, w, r) == [buf |-> b, idx |-> x, write |-> w, row |-> r]
InBounds(a) == a.idx < BufLen(a.buf)

ReadI8(buf, len, x) == IF x < len THEN buf[x] ELSE junk8
ReadF32(buf, len, x) == IF x < len THEN buf[x] ELSE junk32

(***************************************************************************)
(* kernel_entry                                                            *)
(***************************************************************************)
\* #pragma omp parallel for: a team of threads shares the iterations 0 .. d-1.
\* The team is Threads; a thread that is never given an iteration is as good
\* as absent, so the runs of every smaller team are among those of this one.
Fork ==
    /\ mainpc = "entry"
    /\ mainpc' = "parallel"
    /\ pool' = 0 .. d - 1
    /\ UNCHANGED <<inputs, xout, locals, htif, halts, writes, inv, prev>>

\* float32_t sum: declared in the body of the parallel loop, private to the row
\* a running sum that the threads share instead
SharedSum(t) == sum[1]
RowSum(t) == sum[t]

\* int32_t ival = 0: declared in the body of the group loop
\* an accumulator that is carried into the next group instead
IvalCarry(t) == ival[t]
IvalInit(t) == 0

\* A thread of the team takes iteration i: in = i * n, sum = 0, j = 0.  Which
\* iteration goes to which thread, and when, is the OpenMP runtime's choice;
\* idle threads are alike, so the lowest-numbered one stands for them all.
ClaimRow(t, i) ==
    /\ mainpc = "parallel"
    /\ pc[t] = "idle"
    /\ \A u \in 1 .. t - 1 : pc[u] # "idle"
    /\ build = "guest" => t = 1     \* built without -fopenmp: one thread
    /\ i \in pool
    /\ pool' = pool \ {i}
    /\ pc' = [pc EXCEPT ![t] = "group"]
    /\ row' = [row EXCEPT ![t] = i]
    /\ base' = [base EXCEPT ![t] = UMul(i, n)]
    /\ sum' = [sum EXCEPT ![t] = F32Zero(0)]
    /\ j' = [j EXCEPT ![t] = 0]
    /\ UNCHANGED <<inputs, xout, mainpc, ival, k, htif, halts, writes, inv, prev>>

\* the test of   for (j = 0; j <= n - gs; j += gs)   in uint64_t
GroupCond(t) == j[t] <= USub(n, gs)

\* The model follows the loop of a row up to its first test with j past the
\* end of the row: a loop that is still running there (n < gs, where n - gs
\* wraps) has read past the buffers, and runs on, reading all of the address
\* space, for some 2^64 / gs groups or for ever.
Followed(t) == j[t] <= n

\* the loop test, and on entry to the body   int32_t ival = 0; k = j
GroupTest(t) ==
    /\ mainpc = "parallel"
    /\ pc[t] = "group"
    /\ Followed(t)
    /\ IF GroupCond(t)
       THEN /\ pc' = [pc EXCEPT ![t] = IF j[t] < UAdd(gs, j[t]) THEN "inner" ELSE "fma"]
            /\ ival' = [ival EXCEPT ![t] = IvalInit(t)]
            /\ k' = [k EXCEPT ![t] = j[t]]
       ELSE /\ pc' = [pc EXCEPT ![t] = "store"]
            /\ UNCHANGED <<ival, k>>
    /\ UNCHANGED <<inputs, xout, mainpc, pool, row, base, sum, j,
                   htif, halts, writes, inv, prev>>

\* ival += (int32_t)(xq[k]) * (int32_t)(wq[in + k])
\* a sum of the two elements in place of their product
MulAccSum(iv, x, w) == I32Add(iv, x + w)
MulAcc(iv, x, w) == I32Add(iv, x * w)

InnerAccesses(t) ==
    { Access("xq", k[t], FALSE, row[t]), Access("wq", UAdd(base[t], k[t]), FALSE, row[t]) }

\* one pass of   for (k = j; k < gs + j; k++) ival += ...  : the body, k++ and
\* the test that follows it
InnerStep(t) ==
    /\ mainpc = "parallel"
    /\ pc[t] = "inner"
    /\ ival' = [ival EXCEPT ![t] = MulAcc(ival[t], ReadI8(xq, XqLen, k[t]),
                                           ReadI8(wq, WqLen, UAdd(base[t], k[t])))]
    /\ k' = [k EXCEPT ![t] = UAdd(k[t], 1)]
    /\ pc' = [pc EXCEPT ![t] = IF UAdd(k[t], 1) < UAdd(gs, j[t]) THEN "inner" ELSE "fma"]
    /\ UNCHANGED <<inputs, xout, mainpc, pool, row, base, sum, j,
                   htif, halts, writes, inv, prev>>

\* f32_fma(i32_to_f32(ival), f32_mul(xs[j / gs], ws[(in + j) / gs]), sum)
\* the same product differently associated: the converted sum is scaled by xs
\* and rounded before the fused step
FmaStepReassoc(iv, sx, sw, s) == F32Fma(F32Mul(I32ToF32(iv), sx), sw, s)
FmaStep(iv, sx, sw, s) == F32Fma(I32ToF32(iv), F32Mul(sx, sw), s)

XsIndex(t) == j[t] \div gs
WsIndex(t) == UAdd(base[t], j[t]) \div gs

FoldAccesses(t) ==
    { Access("xs", XsIndex(t), FALSE, row[t]), Access("ws", WsIndex(t), FALSE, row[t]) }

\* sum = f32_fma(...); j += gs
GroupFold(t) ==
    /\ mainpc = "parallel"
    /\ pc[t] = "fma"
    /\ sum' = [sum EXCEPT ![t] = FmaStep(ival[t], ReadF32(xs, XsLen, XsIndex(t)),
                                          ReadF32(ws, WsLen, WsIndex(t)), RowSum(t))]
    /\ j' = [j EXCEPT ![t] = UAdd(j[t], gs)]
    /\ pc' = [pc EXCEPT ![t] = "group"]
    /\ UNCHANGED <<inputs, xout, mainpc, pool, row, base, ival, k,
                   htif, halts, writes, inv, prev>>

\* xout[i] = sum, the end of iteration i: its locals go out of scope
\* every row stored at the first element instead
StoreIndexZero(t) == 0
StoreIndex(t) == row[t]

StoreAccesses(t) == { Access("xout", StoreIndex(t), TRUE, row[t]) }

Store(t) ==
    /\ mainpc = "parallel"
    /\ pc[t] = "store"
    /\ xout' = [xout EXCEPT ![StoreIndex(t)] = sum[t]]
    /\ writes' = [writes EXCEPT ![StoreIndex(t)] = @ + 1]
    /\ pc' = [pc EXCEPT ![t] = "idle"]
    /\ row' = [row EXCEPT ![t] = 0]
    /\ base' = [base EXCEPT ![t] = 0]
    /\ sum' = [sum EXCEPT ![t] = F32Zero(0)]
    /\ j' = [j EXCEPT ![t] = 0]
    /\ ival' = [ival EXCEPT ![t] = 0]
    /\ k' = [k EXCEPT ![t] = 0]
    /\ UNCHANGED <<inputs, mainpc, pool, htif, halts, inv, prev>>

\* the accesses thread t makes in its next step
NextAccesses(t) ==
    IF pc[t] = "inner" THEN InnerAccesses(t)
    ELSE IF pc[t] = "fma" THEN FoldAccesses(t)
    ELSE IF pc[t] = "store" THEN StoreAccesses(t)
    ELSE {}

\* a read past the end of a buffer faults: the kernel is stopped with all its
\* threads, and never halts
Trap(t) ==
    /\ mainpc = "parallel"
    /\ \E a \in NextAccesses(t) : ~InBounds(a)
    /\ mainpc' = "trapped"
    /\ pc' = [u \in Threads |-> "idle"]
    /\ row' = [u \in Threads |-> 0]
    /\ base' = [u \in Threads |-> 0]
    /\ sum' = [u \in Threads |-> F32Zero(0)]
    /\ j' = [u \in Threads |-> 0]
    /\ ival' = [u \in Threads |-> 0]
    /\ k' = [u \in Threads |-> 0]
    /\ UNCHANGED <<inputs, xout, pool, htif, halts, writes, inv, prev>>

\* the implicit barrier that ends the parallel region
\* a loop without the barrier at its end: the main thread goes on as soon as
\* no row is left to hand out
JoinNoWait == pool = {}
JoinReady == pool = {} /\ \A t \in Threads : pc[t] = "idle"

Join ==
    /\ mainpc = "parallel"
    /\ JoinReady
    /\ mainpc' = "halt"
    /\ UNCHANGED <<inputs, xout, pool, locals, htif, halts, writes, inv, prev>>

\* halt(): guest, *(uint64_t*)(HTIF_START) = 1; host, nothing
HtifAfterHalt == IF build = "guest" THEN 1 ELSE htif

Halt ==
    /\ mainpc = "halt"
    /\ mainpc' = "done"
    /\ htif' = HtifAfterHalt
    /\ halts' = halts + 1
    /\ UNCHANGED <<inputs, xout, pool, locals, writes, inv, prev>>

\* The host build returns to its caller, which may call kernel_entry again
\* with the same arguments (the guest build has stopped the machine).
Reinvoke ==
    /\ mainpc = "done"
    /\ build = "host"
    /\ inv = 1
    /\ inv' = inv + 1
    /\ prev' = xout
    /\ xout' = [x \in 0 .. d - 1 |-> XoutBefore]
    /\ writes' = [x \in 0 .. d - 1 |-> 0]
    /\ halts' = 0
    /\ mainpc' = "entry"
    /\ pool' = {}
    /\ UNCHANGED <<inputs, locals, htif>>

Next ==
    \/ Fork
    \/ \E t \in Threads : \E i \in pool : ClaimRow(t, i)
    \/ \E t \in Threads : GroupTest(t)
    \/ \E t \in Threads : InnerStep(t)
    \/ \E t \in Threads : GroupFold(t)
    \/ \E t \in Threads : Store(t)
    \/ \E t \in Threads : Trap(t)
    \/ Join
    \/ Halt
    \/ Reinvoke

\* every combination of dimensions, plain contents
Spec == Init /\ [][Next]_vars

\* the richer contents
SpecNum == InitNum /\ [][Next]_vars

(***************************************************************************)
(* What the kernel is to compute, written without the loops.               *)
(***************************************************************************)
\* the dimensions the data model calls valid
ValidDims(nn, dd, gg) == gg >= 1 /\ nn % gg = 0 /\ dd >= 1
Valid == ValidDims(n, d, gs)
Groups == n \div gs
Rows == 0 .. d - 1
Done == mainpc = "done"

\* the exact sum of xq[x] * wq[i*n + x] over lo <= x < hi
RECURSIVE DotUpTo(_, _, _)
DotUpTo(i, lo, hi) ==
    IF hi <= lo THEN 0 ELSE DotUpTo(i, lo, hi - 1) + xq[hi - 1] * wq[i * n + hi - 1]

GroupDot(i, g) == DotUpTo(i, g * gs, g * gs + gs)
ScaleProduct(i, g) == F32Mul(xs[g], ws[(i * n + g * gs) \div gs])

\* the left fold over the groups 0 .. g-1 of row i, starting from +0
RECURSIVE RowFold(_, _)
RowFold(i, g) ==
    IF g = 0 THEN F32Zero(0)
    ELSE F32Fma(I32ToF32(GroupDot(i, g - 1)), ScaleProduct(i, g - 1), RowFold(i, g - 1))

AllWritten == \A i \in Rows : writes[i] >= 1
Busy(t) == pc[t] # "idle"

(***************************************************************************)
(* C1                                                                      *)
(***************************************************************************)
F32Ten == F32(0, ExpBias + 3, 2 ^ (FracBits - 2))      \* 10.0 = 1.25 * 2^3

IsScenario ==
    /\ n = 4 /\ d = 1 /\ gs = 2
    /\ xq = [x \in 0 .. 3 |-> x + 1]
    /\ wq = [x \in 0 .. 3 |-> 1]
    /\ xs = [x \in 0 .. 1 |-> F32One]
    /\ ws = [x \in 0 .. 1 |-> F32One]

\* C1: for valid dimensions, when kernel_entry is done every xout[i] is the
\* left fold, over the groups in increasing offset, of
\* fma(float(exact group dot product), mul(xs[g], ws[(i*n+g*gs)/gs]), sum) from
\* sum = +0; in the scenario n=4, d=1, gs=2, xq=[1,2,3,4], wq=[1,1,1,1],
\* xs=ws=[1.0,1.0] the group sums are 3 and 7 and xout[0] is 10.0.
C1_FoldResult ==
    /\ (Valid /\ Done) => \A i \in Rows : xout[i] = RowFold(i, Groups)
    /\ IsScenario =>
          /\ \A t \in Threads : pc[t] = "fma" => ival[t] = (IF j[t] = 0 THEN 3 ELSE 7)
          /\ Done => xout[0] = F32Ten

C1_Witness == IsScenario /\ Done /\ xout[0] = F32Ten /\ xout[0] = RowFold(0, 2)

C4_Deterministic == (inv = 2 /\ Done) => xout = prev

C4_Witness == inv = 2 /\ Done /\ d = MaxD /\ Groups >= 2 /\ xout = prev /\ xout[0] # xout[1]

(***************************************************************************)
(* C5                                                                      *)
(***************************************************************************)
C5_Accesses ==
    \A t \in Threads : \A a \in NextAccesses(t) :
        /\ a.write => (a.buf = "xout" /\ a.idx = a.row /\ a.idx < d)
        /\ a.buf = "xout" => a.write

C5_Writes ==
    /\ \A i \in Rows : writes[i] <= 1
    /\ \A i \in Rows : writes[i] = 0 => xout[i] = XoutBefore
    /\ \A t, u \in Threads : (t # u /\ Busy(t) /\ Busy(u)) => row[t] # row[u]
    /\ mainpc \in {"halt", "done"} => \A i \in Rows : writes[i] = 1

\* C5: no step changes xq, xs, wq or ws; the only write a row's computation
\* makes is the one store xout[i] of its own row i, and it never reads xout; no
\* two rows in progress are the same row; every xout[i] is written exactly once
\* when the kernel has finished.
C5_Frame ==
    /\ [](C5_Accesses /\ C5_Writes)
    /\ [][xq' = xq /\ xs' = xs /\ wq' = wq /\ ws' = ws]_vars
    /\ [][\A i \in Rows : xout'[i] # xout[i] => writes'[i] = writes[i] + 1 \/ mainpc' = "entry"]_vars

C5_Witness == Done /\ d = MaxD /\ \A i \in Rows : writes[i] = 1 /\ xout[i] # XoutBefore

(***************************************************************************)
(* C6                                                                      *)
(***************************************************************************)
XqAllZero == \A x \in 0 .. n - 1 : xq[x] = 0
ScalesFinite(i) == \A g \in 0 .. Groups - 1 : IsFinite(ScaleProduct(i, g))

\* C6 as stated: with every xq element 0, every xout[i] is a zero after the
\* kernel, whatever wq and the scales hold.
C6_AnyScales == (XqAllZero /\ Done) => \A i \in Rows : IsZero(xout[i])

\* C6: with every xq element 0, xout[i] is +0 after the kernel for every row i
\* whose scale products mul(xs[g], ws[(i*n+g*gs)/gs]) are all finite, whatever
\* wq holds.
C6_ZeroInput == (XqAllZero /\ Done) => \A i \in Rows : ScalesFinite(i) => xout[i] = F32Zero(0)

C6_Witness ==
    /\ XqAllZero /\ Done /\ n >= 2 /\ Groups >= 2
    /\ \E x \in 0 .. n - 1 : wq[x] # 0
    /\ \E g \in 0 .. Groups - 1 : ~IsZero(ScaleProduct(0, g)) /\ ScaleProduct(0, g) # F32One
    /\ ScalesFinite(0)
    /\ xout[0] = F32Zero(0)

(***************************************************************************)
(* C7                                                                      *)
(***************************************************************************)
\* the group a thread is in lies inside the row
WholeGroup(t) == pc[t] \in {"inner", "fma"} => j[t] + gs <= n

\* C7: when gs does not divide n (gs > n included) exactly the n \div gs whole
\* groups are folded and no element at an offset >= n of the row is read.
C7_WholeGroupsOnly ==
    (gs >= 1 /\ n % gs # 0) =>
        /\ mainpc # "trapped"
        /\ \A t \in Threads : WholeGroup(t)
        /\ \A t \in Threads : \A a \in NextAccesses(t) :
               /\ a.buf = "xq" => a.idx < n
               /\ a.buf = "wq" => a.idx < a.row * n + n
        /\ Done => \A i \in Rows : xout[i] = RowFold(i, Groups)

(***************************************************************************)
(* C8                                                                      *)
(***************************************************************************)
\* C8: for valid dimensions the group loop's counter is a multiple of gs
\* within 0 .. n, so that a row's loop test is reached at most n \div gs + 1
\* times; the body runs for whole groups of the row only, its counter within
\* the group; and no read faults: the kernel ends after d rows of n \div gs
\* groups of gs steps.
C8_Terminates ==
    Valid =>
        /\ mainpc # "trapped"
        /\ \A t \in Threads : Busy(t) => (j[t] % gs = 0 /\ j[t] <= Groups * gs)
        /\ \A t \in Threads : WholeGroup(t)
        /\ \A t \in Threads : pc[t] \in {"inner", "fma"} => (j[t] <= k[t] /\ k[t] <= j[t] + gs)

(***************************************************************************)
(* C9                                                                      *)
(***************************************************************************)
XqSymmetric == \A x \in 0 .. n - 1 : -I8Max <= xq[x] /\ xq[x] <= I8Max
MaxProduct == I8Max * (-I8Min)

\* C9: with xq in [-127, 127] and gs * 127 * 128 within the int32 range, after
\* m elements of a group ival is the exact sum of the m products, of magnitude
\* at most m * 127 * 128, hence within int32; it is 0 when the group starts.
C9_AccumulatorRange ==
    (XqSymmetric /\ gs * MaxProduct <= I32Max) =>
        \A t \in Threads : (pc[t] \in {"inner", "fma"} /\ k[t] <= n) =>
            /\ ival[t] = DotUpTo(row[t], j[t], k[t])
            /\ Abs(ival[t]) <= (k[t] - j[t]) * MaxProduct
            /\ I32Min <= ival[t] /\ ival[t] <= I32Max
            /\ k[t] = j[t] => ival[t] = 0
            /\ pc[t] = "fma" => k[t] = j[t] + gs

C9_Witness ==
    \E t \in Threads :
        /\ pc[t] = "fma" /\ gs >= 2 /\ j[t] > 0 /\ XqSymmetric
        /\ ival[t] = -(gs * MaxProduct)

(***************************************************************************)
(* C10                                                                     *)
(***************************************************************************)
\* the length the data model gives each buffer
Extent(b) ==
    CASE b = "xq" -> n
      [] b = "xs" -> n \div gs
      [] b = "wq" -> d * n
      [] b = "ws" -> d * (n \div gs)
      [] b = "xout" -> d

\* C10: for valid dimensions and buffers of the lengths n, n \div gs, d*n,
\* d*(n \div gs) and d, every access is inside its buffer, and a read of wq is
\* inside the row of the computation that makes it.
C10_InBounds ==
    Valid =>
        \A t \in Threads : \A a \in NextAccesses(t) :
            /\ a.idx < Extent(a.buf)
            /\ a.buf = "wq" => (a.row * n <= a.idx /\ a.idx < a.row * n + n)
====
